---- MODULE Spec2Model ----
(***************************************************************************)
(* Model of the ghlogo worker (src/src/index.ts): the PNG aspect-ratio     *)
(* padding engine padPng with its chunk codec, CRC-32, scanline unfilter   *)
(* and rebuild steps, and the request handler that calls it.               *)
(*                                                                         *)
(* Conventions.  A Uint8Array is a sequence of bytes; the JS index i is    *)
(* the TLA+ index i + 1.  A 32-bit unsigned word is a pair <<hi, lo>> of   *)
(* 16-bit halves wherever all 32 bits are used (CRC-32).  A chunk type is  *)
(* the sequence of its character codes.                                    *)
(***************************************************************************)
EXTENDS Integers, Sequences, FiniteSets, TLC

----------------------------------------------------------------------------
(* The two values of the language that a number-typed variable of padPng  *)
(* can hold besides a number.  Every number of the model is >= 0, so the   *)
(* two are told apart from numbers by their sign.                          *)
NaN == -1
Undefined == -2

----------------------------------------------------------------------------
(* Byte and word arithmetic. *)

RECURSIVE XorN(_, _, _)
XorN(a, b, n) ==
  IF n = 0 THEN 0
  ELSE (((a % 2) + (b % 2)) % 2) + 2 * XorN(a \div 2, b \div 2, n - 1)

Xor8(a, b) == XorN(a, b, 8)

Xor32(x, y) == <<XorN(x[1], y[1], 16), XorN(x[2], y[2], 16)>>

\* x >>> 1 on a 32-bit word
Shr1(x) == <<x[1] \div 2, (x[2] \div 2) + (x[1] % 2) * 32768>>

\* x >>> 8 on a 32-bit word
Shr8(x) == <<x[1] \div 256, (x[2] \div 256) + (x[1] % 256) * 256>>

\* DataView.getUint32 at the JS offset off (big-endian); the caller has
\* checked off + 4 <= Len(buf)
GetUint32(buf, off) ==
  ((buf[off + 1] * 256 + buf[off + 2]) * 256 + buf[off + 3]) * 256 + buf[off + 4]

\* The four bytes DataView.setUint32 stores for the number n (big-endian);
\* NaN is stored as 0
U32Bytes(n) ==
  IF n = NaN THEN <<0, 0, 0, 0>>
  ELSE <<(n \div 16777216) % 256, (n \div 65536) % 256, (n \div 256) % 256, n % 256>>

WordBytes(x) == <<x[1] \div 256, x[1] % 256, x[2] \div 256, x[2] % 256>>

\* True of every value; evaluating it evaluates x (the loops below use it
\* to compute an accumulator before passing it on)
Evaluated(x) == x = x

Min(a, b) == IF a < b THEN a ELSE b
Max(a, b) == IF a > b THEN a ELSE b

\* TypedArray.prototype.subarray(begin, end): both ends are clamped to the
\* array, a negative index counts from the end
Subarray(buf, begin, end) ==
  LET len == Len(buf)
      s == IF begin < 0 THEN Max(len + begin, 0) ELSE Min(begin, len)
      e == IF end < 0 THEN Max(len + end, 0) ELSE Min(end, len)
  IN IF e <= s THEN <<>> ELSE SubSeq(buf, s + 1, e)

----------------------------------------------------------------------------
(* CRC-32 *)

Poly == <<60856, 33568>>   \* 0xedb88320

RECURSIVE CrcBits(_, _)
CrcBits(c, k) ==
  IF k = 0 THEN c
  ELSE CrcBits(IF c[2] % 2 = 1 THEN Xor32(Poly, Shr1(c)) ELSE Shr1(c), k - 1)

crc32Table == [n \in 0..255 |-> CrcBits(<<0, n>>, 8)]

\* One iteration of the loop of crc32
CrcStep(crc, byte) == Xor32(crc32Table[Xor8(crc[2] % 256, byte)], Shr8(crc))

\* The loop of crc32 over the JS indices lo .. hi - 1, from the value crc.
\* The range is halved instead of walked, and the first half evaluated
\* before the second starts, so that the evaluation stays shallow; the
\* bytes are folded in in index order.
RECURSIVE CrcLoop(_, _, _, _)
CrcLoop(crc, data, lo, hi) ==
  IF hi <= lo THEN crc
  ELSE IF hi = lo + 1 THEN CrcStep(crc, data[lo + 1])
  ELSE LET mid == (lo + hi) \div 2
           left == CrcLoop(crc, data, lo, mid)
       IN IF Evaluated(left) THEN CrcLoop(left, data, mid, hi) ELSE left

crc32(data, start, end) ==
  Xor32(CrcLoop(<<65535, 65535>>, data, start, end), <<65535, 65535>>)

----------------------------------------------------------------------------
(* Chunk codec *)

PNG_SIGNATURE == <<137, 80, 78, 71, 13, 10, 26, 10>>

IHDR == <<73, 72, 68, 82>>
IDAT == <<73, 68, 65, 84>>
IEND == <<73, 69, 78, 68>>
TEXT == <<116, 69, 88, 116>>

\* Mutant: the loop goes on while offset <= buf.length
RECURSIVE ParseFrom_inclusive(_, _, _, _)
ParseFrom_inclusive(buf, offset, chunks, offsets) ==
  IF offset > Len(buf)
    THEN [threw |-> FALSE, chunks |-> chunks, offsets |-> offsets]
  ELSE IF offset + 4 > Len(buf)
    THEN [threw |-> TRUE, chunks |-> chunks, offsets |-> Append(offsets, offset)]
  ELSE LET length == GetUint32(buf, offset)
           type == Subarray(buf, offset + 4, offset + 8)
           data == Subarray(buf, offset + 8, offset + 8 + length)
       IN ParseFrom_inclusive(buf, offset + 12 + length,
                              Append(chunks, [type |-> type, data |-> data]),
                              Append(offsets, offset))

\* The while loop of parsePngChunks from the read offset on.  getUint32
\* throws a RangeError when fewer than 4 bytes are left at the offset; the
\* two subarray calls clamp.  offsets lists the value of offset at the
\* start of each iteration.
RECURSIVE ParseFrom(_, _, _, _)
ParseFrom(buf, offset, chunks, offsets) ==
  IF offset >= Len(buf)
    THEN [threw |-> FALSE, chunks |-> chunks, offsets |-> offsets]
  ELSE IF offset + 4 > Len(buf)
    THEN [threw |-> TRUE, chunks |-> chunks, offsets |-> Append(offsets, offset)]
  ELSE LET length == GetUint32(buf, offset)
           type == Subarray(buf, offset + 4, offset + 8)
           data == Subarray(buf, offset + 8, offset + 8 + length)
       IN ParseFrom(buf, offset + 12 + length,
                    Append(chunks, [type |-> type, data |-> data]),
                    Append(offsets, offset))

parsePngChunks(buf) == ParseFrom(buf, 8, <<>>, <<>>)

\* charCodeAt(i) of a type shorter than 4 characters is NaN, stored as 0
TypeBytes(type) == [i \in 1..4 |-> IF i <= Len(type) THEN type[i] ELSE 0]

\* Mutant: the CRC is computed over the payload without the type tag
EncodeChunk_crcOfData(c) ==
  U32Bytes(Len(c.data)) \o TypeBytes(c.type) \o c.data
    \o WordBytes(crc32(c.data, 0, Len(c.data)))

EncodeChunk(c) ==
  LET body == TypeBytes(c.type) \o c.data
  IN U32Bytes(Len(c.data)) \o body \o WordBytes(crc32(body, 0, Len(body)))

RECURSIVE EncodeChunks(_)
EncodeChunks(chunks) ==
  IF chunks = <<>> THEN <<>>
  ELSE EncodeChunk(Head(chunks)) \o EncodeChunks(Tail(chunks))

buildPng(chunks) == PNG_SIGNATURE \o EncodeChunks(chunks)

----------------------------------------------------------------------------
(* Compression adapter.  The platform's deflate streams are modelled on the *)
(* zlib streams that hold one stored block: header 78 01, block header 01  *)
(* LEN NLEN, the bytes, Adler-32.  Any other byte string is rejected by    *)
(* the decompressor (a TypeError out of reader.read()).                    *)

AdlerStep(s, byte) ==
  LET a == (s[1] + byte) % 65521 IN <<a, (s[2] + a) % 65521>>

\* <<a, b>> after the bytes lo .. hi (TLA+ indices), from the sums s
RECURSIVE AdlerLoop(_, _, _, _)
AdlerLoop(s, data, lo, hi) ==
  IF hi < lo THEN s
  ELSE IF hi = lo THEN AdlerStep(s, data[lo])
  ELSE LET mid == (lo + hi) \div 2
           left == AdlerLoop(s, data, lo, mid)
       IN IF Evaluated(left) THEN AdlerLoop(left, data, mid + 1, hi) ELSE left

Adler32(data) ==
  LET s == AdlerLoop(<<1, 0>>, data, 1, Len(data)) IN <<s[2], s[1]>>

zlibCompress(data) ==
  LET n == Len(data)
  IN <<120, 1, 1, n % 256, n \div 256, 255 - (n % 256), 255 - (n \div 256)>>
       \o data \o WordBytes(Adler32(data))

zlibDecompress(z) ==
  IF Len(z) < 11 \/ z[1] # 120 \/ z[2] # 1 \/ z[3] # 1
    THEN [threw |-> TRUE, data |-> <<>>]
  ELSE LET n == z[4] + 256 * z[5]
           data == Subarray(z, 7, 7 + n)
       IN IF /\ z[6] = 255 - z[4]
             /\ z[7] = 255 - z[5]
             /\ Len(z) = 11 + n
             /\ SubSeq(z, 8 + n, 11 + n) = WordBytes(Adler32(data))
          THEN [threw |-> FALSE, data |-> data]
          ELSE [threw |-> TRUE, data |-> <<>>]

----------------------------------------------------------------------------
(* Padding planner *)

ALLOWED_RATIOS == [r \in {"3:2", "4:3"} |-> IF r = "3:2" THEN <<3, 2>> ELSE <<4, 3>>]

AllowedPairs == {ALLOWED_RATIOS[r] : r \in DOMAIN ALLOWED_RATIOS}

IsNumber(x) == x >= 0

\* Mutant: Math.floor in place of Math.ceil
TargetHeight_floor(w, rw, rh) ==
  IF rw < 0 \/ rh < 0 THEN NaN ELSE (w * rh) \div rw

\* Math.ceil((width * ratioH) / ratioW).  The product is below 2^53 and the
\* divisor is 2, 3 or 4, so the double quotient rounds to the same integer
\* as the exact one; an undefined operand makes the result NaN.
TargetHeight(w, rw, rh) ==
  IF ~IsNumber(rw) \/ ~IsNumber(rh) THEN NaN
  ELSE (w * rh + rw - 1) \div rw

\* Mutant: height > targetHeight
AlreadyTall_strict(h, target) == target >= 0 /\ h > target

\* height >= targetHeight, false when targetHeight is NaN
AlreadyTall(h, target) == IsNumber(target) /\ h >= target

PaddingRows(target, h) == IF IsNumber(target) THEN target - h ELSE NaN

\* Mutant: Math.floor(paddingRows / 2)
TopRows_floor(padding) == IF padding >= 0 THEN padding \div 2 ELSE NaN

\* Math.ceil(paddingRows / 2)
TopRows(padding) == IF IsNumber(padding) THEN (padding + 1) \div 2 ELSE NaN

BottomRows(padding, top) == IF IsNumber(padding) THEN padding - top ELSE NaN

\* Mutant: the default branch takes one byte per pixel and goes on
BytesPerPixel_anyType(ct) ==
  CASE ct = 0 -> 1
    [] ct = 2 -> 3
    [] ct = 4 -> 2
    [] ct = 6 -> 4
    [] OTHER -> 1

\* The switch on colorType; 0 stands for the default branch (return null)
BytesPerPixel(ct) ==
  CASE ct = 0 -> 1
    [] ct = 2 -> 3
    [] ct = 4 -> 2
    [] ct = 6 -> 4
    [] OTHER -> 0

----------------------------------------------------------------------------
(* Scanline filter codec *)

Abs(x) == IF x < 0 THEN -x ELSE x

paeth(a, b, c) ==
  LET p == a + b - c
      pa == Abs(p - a)
      pb == Abs(p - b)
      pcc == Abs(p - c)
  IN IF pa <= pb /\ pa <= pcc THEN a
     ELSE IF pb <= pcc THEN b
     ELSE c

\* A read of a Uint8Array at the JS index i: undefined past its end
At(buf, i) == IF i >= 0 /\ i < Len(buf) THEN buf[i + 1] ELSE Undefined

\* Mutant: the Average predictor rounds up
Reconstruct_avgCeil(filterType, raw, a, b, c) ==
  IF raw = Undefined THEN 0
  ELSE CASE filterType = 0 -> raw
         [] filterType = 1 -> (raw + a) % 256
         [] filterType = 2 -> (raw + b) % 256
         [] filterType = 3 -> (raw + ((a + b + 1) \div 2)) % 256
         [] filterType = 4 -> (raw + paeth(a, b, c)) % 256
         [] OTHER -> raw

\* The value the switch on filterType stores at unfiltered[dstOff + i].  An
\* undefined raw byte makes every branch store 0 (undefined and NaN convert
\* to 0, and NaN & 0xff is 0).
Reconstruct(filterType, raw, a, b, c) ==
  IF raw = Undefined THEN 0
  ELSE CASE filterType = 0 -> raw
         [] filterType = 1 -> (raw + a) % 256
         [] filterType = 2 -> (raw + b) % 256
         [] filterType = 3 -> (raw + ((a + b) \div 2)) % 256
         [] filterType = 4 -> (raw + paeth(a, b, c)) % 256
         [] OTHER -> raw

\* The body of the inner loop for k = row * pixelBytes + i: acc is
\* unfiltered[0 .. k - 1], the result unfiltered[0 .. k]
UnfilterStep(acc, k, decompressed, pixelBytes, bytesPP) ==
  LET row == k \div pixelBytes
      i == k % pixelBytes
      rowBytes == 1 + pixelBytes
      filterType == At(decompressed, row * rowBytes)
      srcOff == row * rowBytes + 1
      dstOff == row * pixelBytes
      prevOff == (row - 1) * pixelBytes
      raw == At(decompressed, srcOff + i)
      a == IF i >= bytesPP THEN acc[dstOff + i - bytesPP + 1] ELSE 0
      b == IF row > 0 THEN acc[prevOff + i + 1] ELSE 0
      c == IF row > 0 /\ i >= bytesPP THEN acc[prevOff + i - bytesPP + 1] ELSE 0
  IN Append(acc, Reconstruct(filterType, raw, a, b, c))

\* The two nested loops over row and i, as one pass over k in lo .. hi - 1
\* in increasing order (the range is halved to keep the evaluation shallow)
RECURSIVE UnfilterLoop(_, _, _, _, _, _)
UnfilterLoop(acc, lo, hi, decompressed, pixelBytes, bytesPP) ==
  IF hi <= lo THEN acc
  ELSE IF hi = lo + 1 THEN UnfilterStep(acc, lo, decompressed, pixelBytes, bytesPP)
  ELSE LET mid == (lo + hi) \div 2
           left == UnfilterLoop(acc, lo, mid, decompressed, pixelBytes, bytesPP)
       IN IF Evaluated(left)
            THEN UnfilterLoop(left, mid, hi, decompressed, pixelBytes, bytesPP)
            ELSE left

Unfilter(decompressed, h, pixelBytes, bytesPP) ==
  UnfilterLoop(<<>>, 0, h * pixelBytes, decompressed, pixelBytes, bytesPP)

\* Mutant: fill(0xff) from index 0, over the filter tag too
WhitePadRow_fillAll(rowBytes) == [j \in 1..rowBytes |-> 255]

\* whitePadRow: filter tag None, then 0xff over the pixel bytes
WhitePadRow(rowBytes) == [j \in 1..rowBytes |-> IF j = 1 THEN 0 ELSE 255]

\* Mutant: the first row in place of the last
LastRowPixels_first(unf, h, pixelBytes) == Subarray(unf, 0, pixelBytes)

\* unfiltered.subarray((height - 1) * pixelBytes, height * pixelBytes)
LastRowPixels(unf, h, pixelBytes) ==
  Subarray(unf, (h - 1) * pixelBytes, h * pixelBytes)

RECURSIVE Repeat(_, _)
Repeat(row, n) == IF n <= 0 THEN <<>> ELSE row \o Repeat(row, n - 1)

\* One row of the zero-filled newData after newData[pos] = 0 and
\* newData.set(pixels, pos + 1)
NoneRow(pixels, pixelBytes) ==
  <<0>> \o [j \in 1..pixelBytes |-> IF j <= Len(pixels) THEN pixels[j] ELSE 0]

RECURSIVE OriginalRows(_, _, _, _)
OriginalRows(unf, r, h, pixelBytes) ==
  IF r >= h THEN <<>>
  ELSE NoneRow(Subarray(unf, r * pixelBytes, (r + 1) * pixelBytes), pixelBytes)
         \o OriginalRows(unf, r + 1, h, pixelBytes)

\* Mutant: the original rows written before the top padding
NewData_misordered(unf, top, h, bottom, pixelBytes) ==
  OriginalRows(unf, 0, h, pixelBytes)
    \o Repeat(WhitePadRow(1 + pixelBytes), top)
    \o Repeat(NoneRow(LastRowPixels(unf, h, pixelBytes), pixelBytes), bottom)

\* newData once the three loops have run: top padding, original rows,
\* bottom padding.  The row counts are numbers here.
NewData(unf, top, h, bottom, pixelBytes) ==
  Repeat(WhitePadRow(1 + pixelBytes), top)
    \o OriginalRows(unf, 0, h, pixelBytes)
    \o Repeat(NoneRow(LastRowPixels(unf, h, pixelBytes), pixelBytes), bottom)

----------------------------------------------------------------------------
(* Image rebuilder *)

\* chunks.find((c) => c.type === "IHDR"): the index of the first header
\* chunk, 0 when there is none
RECURSIVE FindType(_, _, _)
FindType(chunks, type, i) ==
  IF i > Len(chunks) THEN 0
  ELSE IF chunks[i].type = type THEN i
  ELSE FindType(chunks, type, i + 1)

\* The data of all IDAT chunks, in order
RECURSIVE IdatConcat(_)
IdatConcat(chunks) ==
  IF chunks = <<>> THEN <<>>
  ELSE (IF Head(chunks).type = IDAT THEN Head(chunks).data ELSE <<>>)
         \o IdatConcat(Tail(chunks))

\* new Uint8Array(ihdrChunk.data) with setUint32(4, targetHeight)
NewIhdrData(ihdrData, target) ==
  [j \in 1..Len(ihdrData) |-> IF j \in 5..8 THEN U32Bytes(target)[j - 4] ELSE ihdrData[j]]

\* Mutant: idatInserted is never set, every IDAT chunk is replaced
RECURSIVE Rebuild_everyIdat(_, _, _, _)
Rebuild_everyIdat(chunks, newIhdrData, compressedData, idatInserted) ==
  IF chunks = <<>> THEN <<>>
  ELSE LET c == Head(chunks)
       IN IF c.type = IHDR
            THEN <<[type |-> IHDR, data |-> newIhdrData]>>
                   \o Rebuild_everyIdat(Tail(chunks), newIhdrData, compressedData, idatInserted)
          ELSE IF c.type = IDAT
            THEN <<[type |-> IDAT, data |-> compressedData]>>
                   \o Rebuild_everyIdat(Tail(chunks), newIhdrData, compressedData, idatInserted)
          ELSE <<c>> \o Rebuild_everyIdat(Tail(chunks), newIhdrData, compressedData, idatInserted)

RECURSIVE Rebuild(_, _, _, _)
Rebuild(chunks, newIhdrData, compressedData, idatInserted) ==
  IF chunks = <<>> THEN <<>>
  ELSE LET c == Head(chunks)
       IN IF c.type = IHDR
            THEN <<[type |-> IHDR, data |-> newIhdrData]>>
                   \o Rebuild(Tail(chunks), newIhdrData, compressedData, idatInserted)
          ELSE IF c.type = IDAT
            THEN (IF idatInserted THEN <<>>
                  ELSE <<[type |-> IDAT, data |-> compressedData]>>)
                   \o Rebuild(Tail(chunks), newIhdrData, compressedData, TRUE)
          ELSE <<c>> \o Rebuild(Tail(chunks), newIhdrData, compressedData, idatInserted)

NewChunks(chunks, newIhdrData, compressedData) ==
  Rebuild(chunks, newIhdrData, compressedData, FALSE)

----------------------------------------------------------------------------
(* Inputs: the byte buffers padPng is called on.  A buffer is described by *)
(* the image it encodes (width, height, colour type, bit depth, interlace  *)
(* flag, a pattern of filter tags and filtered bytes), a chunk layout, and *)
(* a defect applied to the encoded bytes.                                  *)

MaxWidth == 4
MaxPlanWidth == 8
MaxHeight == 3
NumPatterns == 6
MaxTrailing == 5

ColorTypes == {0, 2, 3, 4, 6, 7}
BitDepths == {8, 16}

\* The filter tag of row r: every tag 0..5 occurs in every row position
FilterOf(pat, r) == (pat + r) % 6

\* The filtered byte at row r, column i: values on both sides of 128, so
\* that the reconstruction sums wrap.  The pattern TiePattern (tags Average
\* and Paeth) has bytes that bring the distances of the Paeth predictor to
\* a tie: (a, b, c) = (4, 1, 2) at column 1 and (0, 3, 1) at column 2 of
\* row 1
TiePattern == 9

TieBytes == <<<<2, 0, 3, 7>>, <<2, 252, 5, 11>>>>

PixelByte(pat, r, i) ==
  IF pat = TiePattern
    THEN TieBytes[(r % 2) + 1][(i % 4) + 1]
    ELSE (201 + 89 * pat + 61 * r + 43 * i) % 256

RECURSIVE ScanlineRows(_, _, _, _)
ScanlineRows(pat, r, h, pixelBytes) ==
  IF r >= h THEN <<>>
  ELSE <<FilterOf(pat, r)>> \o [i \in 1..pixelBytes |-> PixelByte(pat, r, i - 1)]
         \o ScanlineRows(pat, r + 1, h, pixelBytes)

\* The bytes per pixel the encoder of an input uses; an image of a colour
\* type padPng rejects is encoded with one byte per pixel
EncBpp(ct) == IF BytesPerPixel(ct) = 0 THEN 1 ELSE BytesPerPixel(ct)

IhdrData(p) == U32Bytes(p.w) \o U32Bytes(p.h) \o <<p.bd, p.ct, 0, 0, p.il>>

Ancillary(n) == [type |-> TEXT, data |-> <<n, 65>>]

\* Layouts of the chunk sequence.  z is the compressed scanline data.
\*   0: IHDR IDAT IEND
\*   1: IHDR tEXt IDAT IDAT tEXt IEND        (data split over two chunks)
\*   2: tEXt IHDR IDAT tEXt IDAT IEND        (header not first, split data)
\*   3: IHDR IDAT IEND IHDR                  (a second header chunk)
\*   4: IHDR IEND                            (no data chunk)
NumLayouts == 5

Layout(p, z) ==
  LET hdr == [type |-> IHDR, data |-> IhdrData(p)]
      half == Len(z) \div 2
      z1 == SubSeq(z, 1, half)
      z2 == SubSeq(z, half + 1, Len(z))
      end == [type |-> IEND, data |-> <<>>]
  IN CASE p.layout = 0 -> <<hdr, [type |-> IDAT, data |-> z], end>>
       [] p.layout = 1 -> <<hdr, Ancillary(1), [type |-> IDAT, data |-> z1],
                            [type |-> IDAT, data |-> z2], Ancillary(2), end>>
       [] p.layout = 2 -> <<Ancillary(1), hdr, [type |-> IDAT, data |-> z1],
                            Ancillary(2), [type |-> IDAT, data |-> z2], end>>
       [] p.layout = 3 -> <<hdr, [type |-> IDAT, data |-> z], end,
                            [type |-> IHDR, data |-> IhdrData([p EXCEPT !.w = p.w + 1])]>>
       [] OTHER -> <<hdr, end>>

\* Defects:
\*   "none"
\*   "prefix"    the first n bytes of the buffer only (truncated framing)
\*   "trailing"  n more bytes after the last chunk
\*   "badsig"    byte n of the signature changed
\*   "shortihdr" a header chunk of 12 data bytes
\*   "longihdr"  a header chunk of 14 data bytes
\*   "biglen"    the last chunk declares n bytes more than it has
\*   "badzlib"   the Adler-32 of the compressed data is wrong
\*   "shortdata" the scanline data lacks its last n bytes
Encoded(p) ==
  LET pixelBytes == p.w * EncBpp(p.ct)
      rows == ScanlineRows(p.pat, 0, p.h, pixelBytes)
      scan == IF p.defect = "shortdata"
                THEN SubSeq(rows, 1, Max(Len(rows) - p.n, 0)) ELSE rows
      z0 == zlibCompress(scan)
      z == IF p.defect = "badzlib"
             THEN [z0 EXCEPT ![Len(z0)] = (z0[Len(z0)] + 1) % 256] ELSE z0
      chunks0 == Layout(p, z)
      chunks == CASE p.defect = "shortihdr" ->
                       [chunks0 EXCEPT ![1].data = SubSeq(chunks0[1].data, 1, 12)]
                  [] p.defect = "longihdr" ->
                       [chunks0 EXCEPT ![1].data = chunks0[1].data \o <<9>>]
                  [] OTHER -> chunks0
      bytes == buildPng(chunks)
      len == Len(bytes)
  IN CASE p.defect = "prefix" -> SubSeq(bytes, 1, Min(p.n, len))
       [] p.defect = "trailing" -> bytes \o [j \in 1..p.n |-> 0]
       [] p.defect = "badsig" -> [bytes EXCEPT ![p.n] = (bytes[p.n] + 1) % 256]
       [] p.defect = "biglen" -> [bytes EXCEPT ![len - 8] = p.n]
       [] OTHER -> bytes

Image(w, h, ct, bd, il, pat, layout, defect, n) ==
  [w |-> w, h |-> h, ct |-> ct, bd |-> bd, il |-> il, pat |-> pat,
   layout |-> layout, defect |-> defect, n |-> n]

\* Every supported colour model, every filter tag, every size
PixelInputs ==
  {Image(w, h, ct, 8, 0, pat, 0, "none", 0) :
     w \in 1..MaxWidth, h \in 0..MaxHeight, ct \in {0, 2, 4, 6},
     pat \in 0..(NumPatterns - 1)}

\* Wider images, for padding plans of several rows above and below
PlanInputs ==
  {Image(w, h, ct, 8, 0, pat, 0, "none", 0) :
     w \in (MaxWidth + 1)..MaxPlanWidth, h \in 1..MaxHeight, ct \in {0, 2},
     pat \in {1, 4}}

\* Greyscale rows on which the Paeth distances tie
TieInputs ==
  {Image(4, h, 0, 8, 0, TiePattern, 0, "none", 0) : h \in {1, 2}}

\* Every header the format guards tell apart
FormatInputs ==
  {Image(w, h, ct, bd, il, 0, 0, "none", 0) :
     w \in {0, 3}, h \in {1, 2}, ct \in ColorTypes, bd \in BitDepths, il \in {0, 1}}

LayoutInputs ==
  {Image(3, h, 2, 8, il, 1, layout, "none", 0) :
     h \in {1, 2}, il \in {0, 1}, layout \in 1..(NumLayouts - 1)}

\* The length of the well-formed 3x1 greyscale image the defects are applied to
BaseLen == Len(Encoded(Image(3, 1, 0, 8, 0, 1, 0, "none", 0)))

DefectInputs ==
  {Image(3, 1, ct, 8, il, 1, 0, d[1], d[2]) :
     ct \in {0, 3}, il \in {0, 1},
     d \in ({"prefix"} \X (0..BaseLen))
             \cup ({"trailing"} \X (1..MaxTrailing))
             \cup ({"badsig"} \X (1..8))
             \cup ({"shortihdr", "longihdr", "badzlib"} \X {0})
             \cup ({"biglen"} \X {1, 40})
             \cup ({"shortdata"} \X (1..4))}

Inputs == PixelInputs \cup PlanInputs \cup TieInputs \cup FormatInputs \cup LayoutInputs \cup DefectInputs

----------------------------------------------------------------------------
(* Request handler: constants and pure helpers *)

CACHE_TTL_MS == 3600000
CACHE_404_TTL_MS == 300000

\* The clock moves in steps of the shorter time to live, MaxTicks times
TickMs == CACHE_404_TTL_MS
MaxTicks == 13

\* url: null
NoUrl == "null"

\* A path is the sequence of the strings between its slashes after the
\* leading one: "/" is <<"">>, "/Owner" is <<"Owner">>, "/owner/" is
\* <<"owner", "">>.
RawPaths == {<<"">>, <<"Owner">>, <<"owner", "">>, <<"a", "b", "c">>}

ToLowerCase(str) == IF str = "Owner" THEN "owner" ELSE str

RECURSIVE StripTrailing(_)
StripTrailing(path) ==
  IF path # <<>> /\ path[Len(path)] = ""
    THEN StripTrailing(SubSeq(path, 1, Len(path) - 1))
    ELSE path

\* path.replace(/\/+$/, "").toLowerCase() || "/": the root is <<>>
normalizePath(path) ==
  LET stripped == StripTrailing(path)
  IN [j \in 1..Len(stripped) |-> ToLowerCase(stripped[j])]

\* path.split("/").filter(Boolean)
Segments(path) == SelectSeq(path, LAMBDA str : str # "")

\* url.searchParams.get("ratio"): null when the parameter is absent
NoParam == "null"
RatioParams == {NoParam, "", "3:2", "4:3", "16:9", "constructor"}

\* Names every object inherits from Object.prototype; a property read of
\* the literal ALLOWED_RATIOS finds them
ObjectPrototypeKeys == {"constructor", "toString", "valueOf", "hasOwnProperty", "__proto__"}

\* ratioParam ? ALLOWED_RATIOS[ratioParam] ?? null : null.  <<>> is null;
\* an inherited member is a value that is not null and whose [0] and [1]
\* are undefined.
RatioOf(ratioParam) ==
  IF ratioParam = NoParam \/ ratioParam = "" THEN <<>>
  ELSE IF ratioParam \in DOMAIN ALLOWED_RATIOS THEN ALLOWED_RATIOS[ratioParam]
  ELSE IF ratioParam \in ObjectPrototypeKeys THEN <<Undefined, Undefined>>
  ELSE <<>>

NoResponse == [status |-> 0, location |-> "", type |-> "", body |-> <<>>]

buildRedirectResponse(url) ==
  [status |-> 302, location |-> url, type |-> "", body |-> <<>>]

build404Response ==
  [status |-> 404, location |-> "", type |-> "text/plain", body |-> <<>>]

PlainResponse(status, type) ==
  [status |-> status, location |-> "", type |-> type, body |-> <<>>]

\* Mutant: the catch clause missing, an exception of padPng becomes a 500
PaddedResponse_nocatch(out, bytes, url) ==
  IF out = "bytes"
    THEN [status |-> 200, location |-> "", type |-> "image/png", body |-> bytes]
  ELSE IF out = "throw" THEN PlainResponse(500, "text/plain")
  ELSE buildRedirectResponse(url)

\* The response of buildPaddedImageResponse once padPng has settled with
\* outcome out: the padded bytes, or the redirect (null, or the catch)
PaddedResponse(out, bytes, url) ==
  IF out = "bytes"
    THEN [status |-> 200, location |-> "", type |-> "image/png", body |-> bytes]
    ELSE buildRedirectResponse(url)

\* The images the og:image URL may serve
WorkerImages ==
  { Image(3, 1, 0, 8, 0, 1, 0, "none", 0),
    Image(3, 2, 2, 8, 0, 2, 0, "none", 0),
    Image(3, 0, 0, 8, 0, 1, 0, "none", 0),
    Image(3, 1, 0, 8, 0, 1, 0, "badzlib", 0),
    Image(3, 1, 0, 8, 0, 1, 0, "trailing", 2) }

----------------------------------------------------------------------------
(* One invocation of padPng.  pc is its position: the code runs from one   *)
(* position to the next without interruption, and is suspended at          *)
(* "inflate" (await zlibDecompress) and "deflate" (await zlibCompress).    *)

VARIABLES
  pc,            \* "idle", "signature", "parse", "header", "height", "bpp",
                 \* "inflate", "deflate", "returned", "thrown"
  input,         \* the description of the image the call is made on
  pngBytes, ratioW, ratioH,                     \* the parameters
  chunks, ihdrData,                             \* chunks, ihdrChunk.data
  width, height, bitDepth, colorType, interlace,
  targetHeight, paddingRows, bpp,
  decompressed, topRows, bottomRows, unfiltered, newData,
  compressed, newChunks,
  outcome,       \* "none", "null" (return null), "bytes", "throw"
  result,        \* the bytes returned when outcome = "bytes"
  now,           \* Date.now()
  memoryCache,   \* path -> [url, expires]
  hpc,           \* the handler: "idle", "github" (await fetchGitHubOgImage),
                 \* "image" (await fetch(ogImageUrl)), "body" (await
                 \* arrayBuffer()), "pad" (await padPng), "responded",
                 \* "rejected"
  path, ratio,   \* the handler's path and ratio
  ogImageUrl,    \* the parameter of buildPaddedImageResponse
  event,         \* what the awaited steps of buildPaddedImageResponse did
  response,
  parked,        \* the frame of a second invocation of padPng, suspended
                 \* at an await (or not started, or settled)
  seen           \* (input, ratio) -> the outcome an invocation ended with

params == <<input, pngBytes, ratioW, ratioH>>
header == <<ihdrData, width, height, bitDepth, colorType, interlace>>
plan == <<targetHeight, paddingRows>>
scan == <<decompressed, topRows, bottomRows, unfiltered, newData>>
rebuilt == <<compressed, newChunks, result>>
locals == <<chunks, header, plan, bpp, scan, rebuilt>>
engine == <<pc, params, locals, outcome>>
handler == <<hpc, path, ratio, ogImageUrl, event, response>>
worker == <<now, memoryCache, handler>>
pair == <<parked, seen>>
vars == <<engine, worker, pair>>

NoInput == Image(0, 0, 0, 0, 0, 0, 0, "unset", 0)

\* The locals of an invocation that has not started
Fresh ==
  /\ chunks = <<>> /\ ihdrData = <<>>
  /\ width = Undefined /\ height = Undefined /\ bitDepth = Undefined
  /\ colorType = Undefined /\ interlace = Undefined
  /\ targetHeight = Undefined /\ paddingRows = Undefined /\ bpp = Undefined
  /\ decompressed = <<>> /\ topRows = Undefined /\ bottomRows = Undefined
  /\ unfiltered = <<>> /\ newData = <<>>
  /\ compressed = <<>> /\ newChunks = <<>>
  /\ outcome = "none" /\ result = <<>>

Idle ==
  /\ pc = "idle" /\ input = NoInput /\ pngBytes = <<>>
  /\ ratioW = Undefined /\ ratioH = Undefined
  /\ Fresh

\* padPng(bytes, rw, rh) is called
Call(p, bytes, rw, rh) ==
  /\ pc' = "signature"
  /\ input' = p /\ pngBytes' = bytes /\ ratioW' = rw /\ ratioH' = rh
  /\ UNCHANGED <<locals, outcome>>

\* The invocation is over and its locals are gone
Discard ==
  /\ pc' = "idle" /\ input' = NoInput /\ pngBytes' = <<>>
  /\ ratioW' = Undefined /\ ratioH' = Undefined
  /\ chunks' = <<>> /\ ihdrData' = <<>>
  /\ width' = Undefined /\ height' = Undefined /\ bitDepth' = Undefined
  /\ colorType' = Undefined /\ interlace' = Undefined
  /\ targetHeight' = Undefined /\ paddingRows' = Undefined /\ bpp' = Undefined
  /\ decompressed' = <<>> /\ topRows' = Undefined /\ bottomRows' = Undefined
  /\ unfiltered' = <<>> /\ newData' = <<>>
  /\ compressed' = <<>> /\ newChunks' = <<>>
  /\ outcome' = "none" /\ result' = <<>>

ReturnNull == pc' = "returned" /\ outcome' = "null"
Throw == pc' = "thrown" /\ outcome' = "throw"

\* lines 260-263
CheckSignature ==
  /\ pc = "signature"
  /\ IF \E i \in 0..7 : At(pngBytes, i) # PNG_SIGNATURE[i + 1]
       THEN ReturnNull
       ELSE pc' = "parse" /\ outcome' = outcome
  /\ UNCHANGED <<params, locals, worker, pair>>

\* line 265
ParseChunks ==
  /\ pc = "parse"
  /\ LET r == parsePngChunks(pngBytes)
     IN IF r.threw
          THEN Throw /\ chunks' = chunks
          ELSE pc' = "header" /\ chunks' = r.chunks /\ outcome' = outcome
  /\ UNCHANGED <<params, header, plan, bpp, scan, rebuilt, worker, pair>>

\* lines 266-279
CheckHeader ==
  /\ pc = "header"
  /\ LET k == FindType(chunks, IHDR, 1)
     IN IF k = 0 \/ Len(chunks[k].data) < 13
          THEN ReturnNull /\ UNCHANGED header
          ELSE LET d == chunks[k].data
               IN /\ ihdrData' = d
                  /\ width' = GetUint32(d, 0)
                  /\ height' = GetUint32(d, 4)
                  /\ bitDepth' = d[9]
                  /\ colorType' = d[10]
                  /\ interlace' = d[13]
                  /\ IF d[13] # 0 \/ d[10] = 3 THEN ReturnNull
                     ELSE IF d[9] # 8 THEN ReturnNull
                     ELSE pc' = "height" /\ outcome' = outcome
  /\ UNCHANGED <<params, chunks, plan, bpp, scan, rebuilt, worker, pair>>

\* lines 281-284
CheckHeight ==
  /\ pc = "height"
  /\ LET target == TargetHeight(width, ratioW, ratioH)
     IN /\ targetHeight' = target
        /\ IF AlreadyTall(height, target)
             THEN ReturnNull /\ paddingRows' = paddingRows
             ELSE /\ paddingRows' = PaddingRows(target, height)
                  /\ pc' = "bpp" /\ outcome' = outcome
  /\ UNCHANGED <<params, chunks, header, bpp, scan, rebuilt, worker, pair>>

\* lines 286-312: the switch on the colour type, then the call of
\* zlibDecompress on the concatenated IDAT data
StartInflate ==
  /\ pc = "bpp"
  /\ IF BytesPerPixel(colorType) = 0
       THEN ReturnNull /\ bpp' = bpp
       ELSE bpp' = BytesPerPixel(colorType) /\ pc' = "inflate" /\ outcome' = outcome
  /\ UNCHANGED <<params, chunks, header, plan, scan, rebuilt, worker, pair>>

\* lines 312-389: zlibDecompress settles; unfilter, re-encode, and the call
\* of zlibCompress.  With row counts that are NaN the buffer newData has
\* length 0 and only the loop over the original rows runs: its first
\* newData.set throws a RangeError.
FinishInflate ==
  /\ pc = "inflate"
  /\ LET r == zlibDecompress(IdatConcat(chunks))
         pixelBytes == width * bpp
         top == TopRows(paddingRows)
         bottom == BottomRows(paddingRows, top)
         unf == Unfilter(r.data, height, pixelBytes, bpp)
     IN IF r.threw
          THEN Throw /\ UNCHANGED scan
          ELSE /\ decompressed' = r.data
               /\ topRows' = top
               /\ bottomRows' = bottom
               /\ unfiltered' = unf
               /\ IF IsNumber(top)
                    THEN /\ newData' = NewData(unf, top, height, bottom, pixelBytes)
                         /\ pc' = "deflate" /\ outcome' = outcome
                    ELSE /\ newData' = <<>>
                         /\ IF height > 0 THEN Throw
                            ELSE pc' = "deflate" /\ outcome' = outcome
  /\ UNCHANGED <<params, chunks, header, plan, bpp, rebuilt, worker, pair>>

\* lines 389-412: zlibCompress settles; rebuild the chunks and encode them
FinishDeflate ==
  /\ pc = "deflate"
  /\ LET z == zlibCompress(newData)
         nc == NewChunks(chunks, NewIhdrData(ihdrData, targetHeight), z)
     IN /\ compressed' = z
        /\ newChunks' = nc
        /\ result' = buildPng(nc)
  /\ pc' = "returned" /\ outcome' = "bytes"
  /\ UNCHANGED <<params, chunks, header, plan, bpp, scan, worker, pair>>

PadStep ==
  \/ CheckSignature
  \/ ParseChunks
  \/ CheckHeader
  \/ CheckHeight
  \/ StartInflate
  \/ FinishInflate
  \/ FinishDeflate

----------------------------------------------------------------------------
(* Frames.  The parameters and locals of padPng are bindings of one call   *)
(* (lines 255-412); the variables above are those of the call that runs,   *)
(* a frame is those of a call that waits.                                  *)

Frame ==
  [pc |-> pc, input |-> input, pngBytes |-> pngBytes, ratioW |-> ratioW,
   ratioH |-> ratioH, chunks |-> chunks, ihdrData |-> ihdrData,
   width |-> width, height |-> height, bitDepth |-> bitDepth,
   colorType |-> colorType, interlace |-> interlace,
   targetHeight |-> targetHeight, paddingRows |-> paddingRows, bpp |-> bpp,
   decompressed |-> decompressed, topRows |-> topRows,
   bottomRows |-> bottomRows, unfiltered |-> unfiltered, newData |-> newData,
   compressed |-> compressed, newChunks |-> newChunks, outcome |-> outcome,
   result |-> result]

\* The frame of no call
NoFrame ==
  [pc |-> "idle", input |-> NoInput, pngBytes |-> <<>>, ratioW |-> Undefined,
   ratioH |-> Undefined, chunks |-> <<>>, ihdrData |-> <<>>,
   width |-> Undefined, height |-> Undefined, bitDepth |-> Undefined,
   colorType |-> Undefined, interlace |-> Undefined,
   targetHeight |-> Undefined, paddingRows |-> Undefined, bpp |-> Undefined,
   decompressed |-> <<>>, topRows |-> Undefined,
   bottomRows |-> Undefined, unfiltered |-> <<>>, newData |-> <<>>,
   compressed |-> <<>>, newChunks |-> <<>>, outcome |-> "none",
   result |-> <<>>]

\* Mutant: targetHeight is one binding of the module, the call that resumes
\* finds the value the other call left
Resumed_sharedTarget(frame, running) ==
  [frame EXCEPT !.targetHeight =
     IF running.pc = "idle" THEN frame.targetHeight ELSE running.targetHeight]

\* The bindings a call finds when it resumes while another call's are
\* running: its own
Resumed(frame, running) == frame

Load(f) ==
  /\ pc' = f.pc /\ input' = f.input /\ pngBytes' = f.pngBytes
  /\ ratioW' = f.ratioW /\ ratioH' = f.ratioH
  /\ chunks' = f.chunks /\ ihdrData' = f.ihdrData
  /\ width' = f.width /\ height' = f.height /\ bitDepth' = f.bitDepth
  /\ colorType' = f.colorType /\ interlace' = f.interlace
  /\ targetHeight' = f.targetHeight /\ paddingRows' = f.paddingRows
  /\ bpp' = f.bpp
  /\ decompressed' = f.decompressed /\ topRows' = f.topRows
  /\ bottomRows' = f.bottomRows /\ unfiltered' = f.unfiltered
  /\ newData' = f.newData
  /\ compressed' = f.compressed /\ newChunks' = f.newChunks
  /\ outcome' = f.outcome /\ result' = f.result

----------------------------------------------------------------------------
(* The engine on its own: padPng called on each input with each allowed    *)
(* ratio.                                                                  *)

Invoke ==
  /\ pc = "idle"
  /\ \E p \in Inputs, r \in AllowedPairs : Call(p, Encoded(p), r[1], r[2])
  /\ UNCHANGED <<worker, pair>>

\* The caller takes the result (or catches the exception)
Settle ==
  /\ pc \in {"returned", "thrown"}
  /\ Discard
  /\ UNCHANGED <<worker, pair>>

Init ==
  /\ Idle
  /\ now = 0 /\ memoryCache = <<>>
  /\ hpc = "idle" /\ path = <<>> /\ ratio = <<>> /\ ogImageUrl = NoUrl
  /\ event = "none" /\ response = NoResponse
  /\ parked = NoFrame /\ seen = <<>>

Next == Invoke \/ PadStep \/ Settle

Spec == Init /\ [][Next]_vars

----------------------------------------------------------------------------
(* The request handler.  One request is in flight at a time.  Time passes  *)
(* while the handler is idle or waits for GitHub: Date.now() is read only  *)
(* by getCached and setCache, so a tick during a later await is the same   *)
(* as one after the response.                                              *)

Respond(r) == hpc' = "responded" /\ response' = r

\* memoryCache.delete(key)
CacheDelete(key) ==
  [k \in DOMAIN memoryCache \ {key} |-> memoryCache[k]]

\* setCache(key, url)
CacheSet(key, url) ==
  LET ttl == IF url # NoUrl THEN CACHE_TTL_MS ELSE CACHE_404_TTL_MS
  IN [k \in DOMAIN memoryCache \cup {key} |->
        IF k = key THEN [url |-> url, expires |-> now + ttl] ELSE memoryCache[k]]

\* Mutant: an entry is still served at the instant it expires
CacheHit_inclusive(key) ==
  key \in DOMAIN memoryCache /\ now <= memoryCache[key].expires

\* getCached(key) returns the entry
CacheHit(key) == key \in DOMAIN memoryCache /\ now < memoryCache[key].expires

\* The code after ogImage is known (lines 781-783 and 792-794):
\* buildPaddedImageResponse starts with the fetch of the image
Serve(url, rt) ==
  IF url = NoUrl
    THEN Respond(build404Response) /\ ogImageUrl' = ogImageUrl
  ELSE IF rt # <<>>
    THEN hpc' = "image" /\ ogImageUrl' = url /\ response' = response
  ELSE Respond(buildRedirectResponse(url)) /\ ogImageUrl' = ogImageUrl

\* fetch(request) up to its first await or its response (lines 512-787)
Receive ==
  /\ hpc = "idle"
  /\ \E method \in {"GET", "HEAD", "OPTIONS", "POST"}, rawPath \in RawPaths,
        ratioParam \in RatioParams :
       LET key == normalizePath(rawPath)
           rt == RatioOf(ratioParam)
           segments == Segments(key)
       IN IF method = "OPTIONS"
            THEN Respond(PlainResponse(204, "")) /\ UNCHANGED <<memoryCache, path, ratio, ogImageUrl>>
          ELSE IF method # "GET" /\ method # "HEAD"
            THEN Respond(PlainResponse(405, "text/plain")) /\ UNCHANGED <<memoryCache, path, ratio, ogImageUrl>>
          ELSE IF key = <<>>
            THEN Respond(PlainResponse(200, "text/html")) /\ UNCHANGED <<memoryCache, path, ratio, ogImageUrl>>
          ELSE IF Len(segments) < 1 \/ Len(segments) > 2
            THEN Respond(PlainResponse(400, "text/plain")) /\ UNCHANGED <<memoryCache, path, ratio, ogImageUrl>>
          ELSE /\ path' = key /\ ratio' = rt
               /\ IF CacheHit(key)
                    THEN Serve(memoryCache[key].url, rt) /\ memoryCache' = memoryCache
                    ELSE /\ memoryCache' = CacheDelete(key)
                         /\ hpc' = "github"
                         /\ UNCHANGED <<ogImageUrl, response>>
  /\ UNCHANGED <<now, event, engine, pair>>

\* fetchGitHubOgImage settles (lines 463-477, 787-794): with the og:image
\* URL of the page, with null (not OK, or no og:image), or with the
\* exception of fetch
GitHubResponds ==
  /\ hpc = "github"
  /\ \E got \in {"https://og/image.png", NoUrl, "error"} :
       IF got = "error"
         THEN hpc' = "rejected" /\ UNCHANGED <<memoryCache, ogImageUrl, response>>
         ELSE memoryCache' = CacheSet(path, got) /\ Serve(got, ratio)
  /\ UNCHANGED <<now, path, ratio, event, engine, pair>>

\* fetch(ogImageUrl) settles (lines 421-427)
ImageResponds ==
  /\ hpc = "image"
  /\ \E got \in {"notok", "notpng", "error", "png"} :
       IF got = "png"
         THEN hpc' = "body" /\ UNCHANGED <<event, response>>
         ELSE event' = got /\ Respond(buildRedirectResponse(ogImageUrl))
  /\ UNCHANGED <<now, memoryCache, path, ratio, ogImageUrl, engine, pair>>

\* imgResp.arrayBuffer() throws (lines 427, 437-439)
BodyFails ==
  /\ hpc = "body"
  /\ event' = "bodyerror"
  /\ Respond(buildRedirectResponse(ogImageUrl))
  /\ UNCHANGED <<now, memoryCache, path, ratio, ogImageUrl, engine, pair>>

\* imgResp.arrayBuffer() settles and padPng is called (lines 427-428)
BodyArrives ==
  /\ hpc = "body" /\ pc = "idle"
  /\ \E p \in WorkerImages : Call(p, Encoded(p), ratio[1], ratio[2])
  /\ hpc' = "pad"
  /\ UNCHANGED <<now, memoryCache, path, ratio, ogImageUrl, event, response, pair>>

\* padPng settles (lines 428-439)
PadSettles ==
  /\ hpc = "pad" /\ pc \in {"returned", "thrown"}
  /\ event' = outcome
  /\ Respond(PaddedResponse(outcome, result, ogImageUrl))
  /\ Discard
  /\ UNCHANGED <<now, memoryCache, path, ratio, ogImageUrl, pair>>

\* The runtime sends the response (or the failure) and the handler is over
Deliver ==
  /\ hpc \in {"responded", "rejected"}
  /\ hpc' = "idle" /\ path' = <<>> /\ ratio' = <<>> /\ ogImageUrl' = NoUrl
  /\ event' = "none" /\ response' = NoResponse
  /\ UNCHANGED <<now, memoryCache, engine, pair>>

Tick ==
  /\ hpc \in {"idle", "github"}
  /\ now + TickMs <= MaxTicks * TickMs
  /\ now' = now + TickMs
  /\ UNCHANGED <<memoryCache, handler, engine, pair>>

NextWorker ==
  \/ Receive
  \/ GitHubResponds
  \/ ImageResponds
  \/ BodyFails
  \/ BodyArrives
  \/ PadStep
  \/ PadSettles
  \/ Deliver
  \/ Tick

SpecWorker == Init /\ [][NextWorker]_vars

----------------------------------------------------------------------------
(* Two calls of padPng in flight.  A call runs from its start, or from an  *)
(* await that settled, to its next await (zlibDecompress, line 312, and    *)
(* zlibCompress, line 389) or to its end; only then does another call run. *)
(* Meanwhile request handlers store results in the cache.                  *)

PairImages ==
  { Image(3, 1, 0, 8, 0, 1, 0, "none", 0),
    Image(3, 2, 2, 8, 0, 2, 0, "none", 0) }

\* What the outcome of a call may depend on
Key == <<input, ratioW, ratioH>>

InvokePair ==
  /\ pc = "idle"
  /\ \E p \in PairImages, r \in AllowedPairs : Call(p, Encoded(p), r[1], r[2])
  /\ UNCHANGED <<worker, pair>>

\* The call that runs waits (or is over, or there is none) and the other
\* call goes on
Switch ==
  /\ pc \in {"idle", "inflate", "deflate", "returned", "thrown"}
  /\ pc # "idle" \/ parked.pc # "idle"
  /\ Load(Resumed(parked, Frame))
  /\ parked' = Frame
  /\ UNCHANGED <<worker, seen>>

\* The caller takes the result; the first outcome of each (input, ratio)
\* is kept
SettlePair ==
  /\ pc \in {"returned", "thrown"}
  /\ seen' = IF Key \in DOMAIN seen THEN seen
             ELSE [k \in DOMAIN seen \cup {Key} |->
                     IF k = Key THEN [outcome |-> outcome, result |-> result]
                     ELSE seen[k]]
  /\ Discard
  /\ UNCHANGED <<worker, parked>>

\* A request handler calls setCache (lines 453-456, 790)
Store ==
  /\ \E url \in {"https://og/image.png", NoUrl} :
       memoryCache' = CacheSet(<<"owner">>, url)
  /\ UNCHANGED <<now, handler, engine, pair>>

NextPair == InvokePair \/ PadStep \/ Switch \/ SettlePair \/ Store

SpecPair == Init /\ [][NextPair]_vars

----------------------------------------------------------------------------
(* Properties.  They are stated on the description of the input image and  *)
(* on the bytes padPng returns, decoded again.                             *)

Ended == pc \in {"returned", "thrown"}

\* ceil(w * rh / rw) as the least n with n * rw >= w * rh
CeilRatio(w, rw, rh) ==
  CHOOSE n \in 0..(w * rh) : n * rw >= w * rh /\ (n = 0 \/ (n - 1) * rw < w * rh)

Expected == CeilRatio(input.w, ratioW, ratioH)

\* A well-formed stream: unbroken framing, a header chunk of 13 bytes
WellFormed == input.defect = "none"

Supported == input.bd = 8 /\ input.il = 0 /\ input.ct \in {0, 2, 4, 6}

\* The data of the header chunk as the input holds it
OrigIhdr ==
  IF input.defect = "longihdr" THEN IhdrData(input) \o <<9>> ELSE IhdrData(input)

OutChunks == parsePngChunks(result).chunks

OutIhdr == OutChunks[FindType(OutChunks, IHDR, 1)].data

\* The scanline buffer the returned stream holds
OutScan == zlibDecompress(IdatConcat(OutChunks)).data

InPixelBytes == input.w * EncBpp(input.ct)

InRowBytes == 1 + InPixelBytes

\* Scanline r (from 0) of a buffer of rows of InRowBytes bytes
ScanRow(buf, r) == SubSeq(buf, r * InRowBytes + 1, (r + 1) * InRowBytes)

PixelRow(buf, r) == SubSeq(buf, r * InPixelBytes + 1, (r + 1) * InPixelBytes)

ExpectedTop == (Expected - input.h + 1) \div 2

\* C1: a well-formed supported image lower than the target is padded
\* (layouts 4 and up have no image data chunk and are no PNG), and
\* the header chunk of every returned stream declares the height
\* ceil(width * rh / rw) and equals the input's header in every other byte,
\* the width included.
C1_HeaderHeight ==
  /\ (Ended /\ WellFormed /\ Supported /\ input.layout < 4 /\ input.h < Expected)
       => outcome = "bytes"
  /\ outcome = "bytes" =>
       /\ FindType(OutChunks, IHDR, 1) > 0
       /\ Len(OutIhdr) = Len(OrigIhdr)
       /\ GetUint32(OutIhdr, 4) = Expected
       /\ GetUint32(OutIhdr, 0) = input.w
       /\ \A j \in 1..Len(OrigIhdr) : j \notin 5..8 => OutIhdr[j] = OrigIhdr[j]

C1_Witness ==
  /\ outcome = "bytes" /\ input.ct = 2 /\ input.w = 4 /\ input.h = 1
  /\ ratioW = 3 /\ ratioH = 2
  /\ GetUint32(OutIhdr, 4) = 3

\* C2: a well-formed supported image whose height is at least
\* ceil(width * rh / rw) makes padPng return null, with no bytes built.
C2_AlreadyTallIsNull ==
  (Ended /\ WellFormed /\ Supported /\ input.h >= Expected)
    => outcome = "null" /\ result = <<>> /\ newChunks = <<>> /\ newData = <<>>

C2_Witness ==
  /\ outcome = "null" /\ WellFormed /\ Supported
  /\ input.w = 3 /\ input.h = 2 /\ ratioW = 3 /\ ratioH = 2

\* C3: whenever padding is needed, topRows = ceil(rowsToAdd / 2), topRows +
\* bottomRows = targetHeight - originalHeight, and bottomRows <= topRows.
C3_PaddingPlan ==
  (pc = "deflate" \/ outcome = "bytes") =>
    /\ paddingRows = Expected - input.h
    /\ paddingRows > 0
    /\ 2 * topRows \in {paddingRows, paddingRows + 1}
    /\ topRows + bottomRows = Expected - input.h
    /\ bottomRows >= 0
    /\ bottomRows <= topRows

C3_Witness ==
  /\ pc = "deflate" /\ input.w = 8 /\ input.h = 1 /\ ratioW = 4 /\ ratioH = 3
  /\ paddingRows = 5 /\ topRows = 3 /\ bottomRows = 2

\* An input of C4: a wrong signature (or fewer than 8 bytes), or a stream
\* of valid signature whose header chunk is missing, shorter than 13 bytes,
\* interlaced, indexed-colour or not of bit depth 8.
BadSignature == Subarray(pngBytes, 0, 8) # PNG_SIGNATURE

InChunks == parsePngChunks(pngBytes).chunks

InHeaderAt == FindType(InChunks, IHDR, 1)

Unsupported ==
  \/ BadSignature
  \/ InHeaderAt = 0
  \/ Len(InChunks[InHeaderAt].data) < 13
  \/ InChunks[InHeaderAt].data[13] # 0
  \/ InChunks[InHeaderAt].data[10] = 3
  \/ InChunks[InHeaderAt].data[9] # 8

\* C4: padPng returns null, and throws nothing, on every input with a wrong
\* signature, an interlaced, indexed-colour or non-8-bit header, or a
\* missing or short header chunk.
C4_UnsupportedIsNull ==
  (Ended /\ Unsupported) => outcome = "null"

\* The byte counts at which a chunk of the 3x1 greyscale image ends
ChunkEnds == {8, 33, 60, 72}

\* C5: on every input of valid signature whose bytes end inside a chunk,
\* padPng returns null and throws nothing.
C5_TruncatedIsNull ==
  (Ended /\ input.defect = "prefix" /\ input.n > 8 /\ input.n < BaseLen
     /\ input.n \notin ChunkEnds)
    => outcome = "null"

InPadded == hpc \in {"image", "body", "pad"}

\* C6: buildPaddedImageResponse always settles with a response, never with
\* a rejection; when the image fetch is not OK, the content type is not a
\* PNG's, the fetch or the body throws, padPng returns null or padPng
\* throws, the response is the 302 redirect to the og:image URL it was
\* given, and only the bytes padPng returned make a 200 image/png.
C6_DegradesToRedirect ==
  [][(InPadded /\ ~InPadded') =>
       /\ hpc' = "responded"
       /\ event' \in {"notok", "notpng", "error", "bodyerror", "null", "throw", "bytes"}
       /\ IF event' = "bytes"
            THEN /\ outcome = "bytes"
                 /\ response'.status = 200 /\ response'.type = "image/png"
                 /\ response'.body = result
            ELSE /\ response'.status = 302
                 /\ response'.location = ogImageUrl
                 /\ ogImageUrl # NoUrl]_vars

\* C6: padPng threw and the handler answered with the redirect
C6_Witness ==
  /\ hpc = "responded" /\ event = "throw"
  /\ response = buildRedirectResponse(ogImageUrl)

\* C7: while padPng runs for a request, its ratio arguments are one of the
\* pairs of the allow-list, (3, 2) or (4, 3).
C7_AllowedRatioOnly ==
  pc # "idle" => <<ratioW, ratioH>> \in AllowedPairs

\* C8: in every returned stream the first topRows scanlines are the filter
\* tag 0 followed by width * bytesPerPixel bytes 0xff.
C8_TopRowsWhite ==
  outcome = "bytes" =>
    \A r \in 0..(ExpectedTop - 1) :
      /\ Len(OutScan) >= (r + 1) * InRowBytes
      /\ ScanRow(OutScan, r) = <<0>> \o [j \in 1..InPixelBytes |-> 255]

C8_Witness ==
  /\ outcome = "bytes" /\ input.ct = 6 /\ input.w = 4 /\ input.h = 0
  /\ topRows = 2 /\ Len(ScanRow(OutScan, 1)) = 17

\* C9: in every returned stream of an image of at least one row, the last
\* bottomRows scanlines are the filter tag 0 followed by the unfiltered
\* bytes of the image's last row.
C9_BottomRowsStretch ==
  (outcome = "bytes" /\ input.h >= 1) =>
    \A r \in (ExpectedTop + input.h)..(Expected - 1) :
      /\ Len(OutScan) >= (r + 1) * InRowBytes
      /\ ScanRow(OutScan, r) = <<0>> \o PixelRow(unfiltered, input.h - 1)

C9_Witness ==
  /\ outcome = "bytes" /\ input.w = 8 /\ input.h = 2 /\ input.ct = 2
  /\ bottomRows = 2
  /\ PixelRow(unfiltered, 1) # PixelRow(unfiltered, 0)
  /\ ScanRow(OutScan, Expected - 1) = <<0>> \o PixelRow(unfiltered, 1)

\* The unfiltered bytes of the rows the input image was encoded from
InputPixels ==
  Unfilter(ScanlineRows(input.pat, 0, input.h, InPixelBytes),
           input.h, InPixelBytes, EncBpp(input.ct))

\* The original rows of a returned scanline buffer
MiddleRows(buf) ==
  SubSeq(buf, ExpectedTop * InRowBytes + 1, (ExpectedTop + input.h) * InRowBytes)

\* C10: the returned scanline buffer has targetHeight rows of 1 + width *
\* bytesPerPixel bytes, all of filter tag 0, in the order top padding,
\* original rows, bottom padding; the original rows are in their order and
\* unfiltering them gives the unfiltered bytes of the input rows.
C10_RowsRoundTrip ==
  outcome = "bytes" =>
    /\ Len(OutScan) = Expected * InRowBytes
    /\ OutScan = newData
    /\ \A r \in 0..(Expected - 1) : ScanRow(OutScan, r)[1] = 0
    /\ \A r \in 0..(input.h - 1) :
         ScanRow(OutScan, ExpectedTop + r) = <<0>> \o PixelRow(unfiltered, r)
    /\ Unfilter(MiddleRows(OutScan), input.h, InPixelBytes, EncBpp(input.ct))
         = unfiltered
    /\ WellFormed => unfiltered = InputPixels

C10_Witness ==
  /\ outcome = "bytes" /\ input.w = 4 /\ input.h = 2 /\ input.ct = 6
  /\ topRows = 1 /\ bottomRows = 0
  /\ ScanRow(decompressed, 1)[1] = 4
  /\ Tail(ScanRow(decompressed, 1)) # PixelRow(unfiltered, 1)
  /\ ScanRow(OutScan, 2) = <<0>> \o PixelRow(unfiltered, 1)

\* The chunks of a sequence that are neither header nor image data
Carried(cs) == SelectSeq(cs, LAMBDA c : c.type # IHDR /\ c.type # IDAT)

CountType(cs, type) == Len(SelectSeq(cs, LAMBDA c : c.type = type))

\* C11: the chunk sequence padPng returns holds exactly one IDAT chunk, at
\* the index of the first IDAT chunk of the input, with the new compressed
\* data; the further IDAT chunks of the input are gone; the chunks that
\* are neither IHDR nor IDAT are the input's, unchanged and in their order.
C11_SingleIdatInPlace ==
  outcome = "bytes" =>
    /\ FindType(chunks, IDAT, 1) > 0
    /\ CountType(newChunks, IDAT) = 1
    /\ FindType(newChunks, IDAT, 1) = FindType(chunks, IDAT, 1)
    /\ newChunks[FindType(newChunks, IDAT, 1)].data = compressed
    /\ Len(newChunks) = Len(chunks) - (CountType(chunks, IDAT) - 1)
    /\ Carried(newChunks) = Carried(chunks)
    /\ Len(OutChunks) = Len(newChunks)
    /\ \A k \in 1..Len(newChunks) :
         /\ OutChunks[k].data = newChunks[k].data
         /\ Len(newChunks[k].type) = 4 => OutChunks[k].type = newChunks[k].type

\* C11: two IDAT chunks between ancillary chunks became one
C11_Witness ==
  /\ outcome = "bytes" /\ input.layout = 2
  /\ CountType(chunks, IDAT) = 2 /\ Len(chunks) = 6
  /\ Len(newChunks) = 5 /\ CountType(Carried(newChunks), TEXT) = 2
  /\ newChunks[3].type = IDAT

\* CRC-32 by its definition, bit by bit: the register is xored with each
\* byte and shifted right eight times, xored with 0xedb88320 after a shift
\* that drops a 1; it starts as, and is at the end xored with, 0xffffffff
RECURSIVE RefCrcLoop(_, _, _, _)
RefCrcLoop(crc, data, lo, hi) ==
  IF hi <= lo THEN crc
  ELSE IF hi = lo + 1 THEN CrcBits(Xor32(crc, <<0, data[lo + 1]>>), 8)
  ELSE LET mid == (lo + hi) \div 2
           left == RefCrcLoop(crc, data, lo, mid)
       IN IF Evaluated(left) THEN RefCrcLoop(left, data, mid, hi) ELSE left

RefCrc(data) ==
  Xor32(RefCrcLoop(<<65535, 65535>>, data, 0, Len(data)), <<65535, 65535>>)

\* The offset of chunk k of a sequence in its encoding
RECURSIVE OffsetOf(_, _)
OffsetOf(cs, k) ==
  IF k = 1 THEN 8 ELSE OffsetOf(cs, k - 1) + 12 + Len(cs[k - 1].data)

\* C12: for chunks of 4-character type tags, the bytes buildPng returns are
\* the signature and then, chunk by chunk in order, the payload length in
\* 4 big-endian bytes, the type tag, the payload, and the CRC-32 of type
\* tag and payload in 4 big-endian bytes, 8 + sum of (12 + payload length)
\* bytes in all; parsePngChunks returns the same chunks from them.
C12_EncodeDecode ==
  (outcome = "bytes" /\ \A k \in 1..Len(newChunks) : Len(newChunks[k].type) = 4) =>
    /\ Len(result) = OffsetOf(newChunks, Len(newChunks) + 1)
    /\ Subarray(result, 0, 8) = PNG_SIGNATURE
    /\ \A k \in 1..Len(newChunks) :
         LET c == newChunks[k]
             off == OffsetOf(newChunks, k)
             n == Len(c.data)
         IN /\ Subarray(result, off, off + 4)
                 = <<n \div 16777216, (n \div 65536) % 256, (n \div 256) % 256, n % 256>>
            /\ Subarray(result, off + 4, off + 8) = c.type
            /\ Subarray(result, off + 8, off + 8 + n) = c.data
            /\ Subarray(result, off + 8 + n, off + 12 + n)
                 = WordBytes(RefCrc(c.type \o c.data))
    /\ ~parsePngChunks(result).threw
    /\ parsePngChunks(result).chunks = newChunks

\* C12: a sequence with an empty payload, text chunks and image data was
\* encoded and decodes to itself
C12_Witness ==
  /\ outcome = "bytes" /\ input.layout = 1 /\ input.defect = "none"
  /\ Len(newChunks) = 5
  /\ newChunks[5] = [type |-> IEND, data |-> <<>>]
  /\ Len(result) = 8 + 12 * 5 + Len(newChunks[1].data) + Len(newChunks[2].data)
                     + Len(newChunks[3].data) + Len(newChunks[4].data)
  /\ OutChunks = newChunks

\* The Paeth predictor by the distances of p = a + b - c to a, b and c
PaethPredictor(a, b, c) ==
  LET da == Abs(b - c)
      db == Abs(a - c)
      dc == Abs(a + b - 2 * c)
  IN IF da <= db /\ da <= dc THEN a ELSE IF db <= dc THEN b ELSE c

\* Byte i of row r of the unfiltered pixels (0 outside the image)
Pixel(r, i) ==
  IF r < 0 \/ i < 0 THEN 0 ELSE unfiltered[r * (width * bpp) + i + 1]

\* The byte the filter rules give at row r, column i
Recon(r, i) ==
  LET rowBytes == 1 + width * bpp
      tag == decompressed[r * rowBytes + 1]
      raw == decompressed[r * rowBytes + 1 + i + 1]
      a == Pixel(r, i - bpp)
      b == Pixel(r - 1, i)
      c == IF i < bpp THEN 0 ELSE Pixel(r - 1, i - bpp)
  IN CASE tag = 0 -> raw
       [] tag = 1 -> (raw + a) % 256
       [] tag = 2 -> (raw + b) % 256
       [] tag = 3 -> (raw + ((a + b) \div 2)) % 256
       [] tag = 4 -> (raw + PaethPredictor(a, b, c)) % 256
       [] OTHER -> raw

Unfiltered == pc = "deflate" \/ (pc = "returned" /\ outcome = "bytes")

\* C13: once the unfilter pass has run over scanline data of height rows,
\* every byte of row r, column i is: raw for tag None, raw + a for Sub,
\* raw + b for Up, raw + floor((a + b) / 2) for Average, raw + the Paeth
\* predictor of a, b, c for Paeth, modulo 256, with a, b, c the unfiltered
\* left, above and above-left bytes (0 where there is none); raw for every
\* other tag.
C13_UnfilterRules ==
  (Unfiltered /\ IsNumber(topRows) /\ Len(decompressed) >= height * (1 + width * bpp)) =>
    /\ Len(unfiltered) = height * width * bpp
    /\ \A r \in 0..(height - 1) : \A i \in 0..(width * bpp - 1) :
         Pixel(r, i) = Recon(r, i)

\* C13: two rows under the tags Average and Paeth were unfiltered; in row
\* 1 the distances to a and c tie at column 1 (a chosen) and those to b
\* and c tie at column 2 (b chosen)
C13_Witness ==
  /\ pc = "deflate" /\ height = 2 /\ width = 4 /\ bpp = 1
  /\ decompressed[1] = 3 /\ decompressed[6] = 4
  /\ <<Pixel(1, 0), Pixel(0, 1), Pixel(0, 0)>> = <<4, 1, 2>>
  /\ <<Pixel(1, 1), Pixel(0, 2), Pixel(0, 1)>> = <<0, 3, 1>>
  /\ Pixel(1, 1) = (252 + 4) % 256
  /\ Pixel(1, 2) = 5 + 3

\* C14: with two calls of padPng interleaved at their awaits and the
\* cache changing meanwhile, a call that has ended has the outcome and the
\* bytes that every earlier call on the same input and ratio had; the
\* buffer a call was given still holds the bytes it was called on; and a
\* step that changes the cache is no step of padPng.
C14_NoSharedState ==
  /\ []((Ended /\ Key \in DOMAIN seen) =>
          seen[Key] = [outcome |-> outcome, result |-> result])
  /\ [][/\ (pc # "idle" /\ pc' # "idle" /\ Key' = Key) => pngBytes' = pngBytes
        /\ (parked.pc # "idle" /\ parked'.pc # "idle" /\ parked'.input = parked.input)
             => parked'.pngBytes = parked.pngBytes
        /\ (pc # "idle" /\ parked'.pc # "idle" /\ parked'.input = input)
             => parked'.pngBytes = pngBytes
        /\ (parked.pc # "idle" /\ pc' # "idle" /\ input' = parked.input)
             => pngBytes' = parked.pngBytes
        /\ memoryCache' # memoryCache => UNCHANGED <<engine, parked>>]_vars

\* C14: a call ended with bytes while a call on another input waits for
\* its deflate, the same input and ratio ended before, and the cache holds
\* an entry
C14_Witness ==
  /\ pc = "returned" /\ outcome = "bytes"
  /\ parked.pc = "deflate" /\ parked.input # input
  /\ Key \in DOMAIN seen
  /\ memoryCache # <<>>

\* The header of the input passes every format check of padPng
FormatSupported ==
  /\ ~Unsupported
  /\ InChunks[InHeaderAt].data[10] \in {0, 2, 4, 6}

\* The declared height is below the target height
HeightBelow ==
  GetUint32(InChunks[InHeaderAt].data, 4)
    < CeilRatio(GetUint32(InChunks[InHeaderAt].data, 0), ratioW, ratioH)

\* PaddingNeeded: signature and format are accepted and the declared
\* height is below the target height
PaddingNeeded == FormatSupported /\ HeightBelow

\* The steps of a call, in the order of its guards
GuardOrder ==
  { <<"idle", "signature">>,
    <<"signature", "returned">>, <<"signature", "parse">>,
    <<"parse", "thrown">>, <<"parse", "header">>,
    <<"header", "returned">>, <<"header", "height">>,
    <<"height", "returned">>, <<"height", "bpp">>,
    <<"bpp", "returned">>, <<"bpp", "inflate">>,
    <<"inflate", "thrown">>, <<"inflate", "deflate">>,
    <<"deflate", "returned">>,
    <<"returned", "idle">>, <<"thrown", "idle">> }

\* C15: a call checks the signature, then the header and format, then the
\* height, and ends with one outcome; it inflates, unfilters, deflates and
\* rebuilds only when padding is needed, and a call that returns null has
\* inflated nothing and built no bytes.
C15_GuardOrder ==
  /\ [](/\ (pc \in {"inflate", "deflate"} \/ outcome = "bytes" \/ decompressed # <<>>
              \/ newData # <<>> \/ compressed # <<>> \/ result # <<>>)
             => PaddingNeeded
        /\ outcome = "null" =>
             /\ pc = "returned"
             /\ decompressed = <<>> /\ unfiltered = <<>> /\ newData = <<>>
             /\ compressed = <<>> /\ newChunks = <<>> /\ result = <<>>
        /\ pc = "returned" <=> outcome \in {"null", "bytes"}
        /\ pc = "thrown" <=> outcome = "throw")
  /\ [][pc' # pc =>
          /\ <<pc, pc'>> \in GuardOrder
          /\ (pc = "signature" /\ pc' = "returned") <=> (pc = "signature" /\ BadSignature)
          /\ (pc = "header" /\ pc' = "returned") <=> (pc = "header" /\ Unsupported)
          /\ (pc = "height" /\ pc' = "returned") <=> (pc = "height" /\ ~HeightBelow)
          /\ (pc = "bpp" /\ pc' = "returned") <=> (pc = "bpp" /\ ~FormatSupported)
          /\ pc' = "returned" => outcome' = (IF pc = "deflate" THEN "bytes" ELSE "null")]_vars

\* C15: a header of an unknown colour type and a height below the target
\* was refused after the height check, with nothing inflated
C15_Witness ==
  /\ pc = "returned" /\ outcome = "null"
  /\ colorType = 7 /\ height < targetHeight /\ bpp = Undefined
  /\ decompressed = <<>> /\ result = <<>>

\* C16: in every stream padPng returns, the first chunk is the header
\* chunk and there is exactly one header chunk.
C16_HeaderFirstAndOnly ==
  outcome = "bytes" =>
    /\ OutChunks[1].type = IHDR
    /\ CountType(OutChunks, IHDR) = 1

\* A step in which the handler looks its path up in the cache
Lookup == hpc = "idle" /\ path' # <<>>

\* C17: a lookup answers from the cache only with an entry that expires
\* later than now, and answers what the entry holds; a lookup that finds
\* no entry, or one that has expired, leaves no entry for the path and
\* goes to GitHub; the result GitHub gives, a URL or none, is stored with
\* the expiry now + 1 hour for a URL and now + 5 minutes for none.
C17_CacheExpiry ==
  [][/\ (Lookup /\ hpc' # "github") =>
          /\ path' \in DOMAIN memoryCache
          /\ memoryCache[path'].expires > now
          /\ memoryCache' = memoryCache
          /\ IF memoryCache[path'].url = NoUrl
               THEN hpc' = "responded" /\ response'.status = 404
               ELSE \/ hpc' = "image" /\ ogImageUrl' = memoryCache[path'].url
                    \/ /\ hpc' = "responded" /\ response'.status = 302
                       /\ response'.location = memoryCache[path'].url
     /\ (Lookup /\ hpc' = "github") =>
          /\ path' \notin DOMAIN memoryCache'
          /\ path' \in DOMAIN memoryCache => memoryCache[path'].expires <= now
     /\ (hpc = "github" /\ hpc' \in {"responded", "image"}) =>
          /\ path \in DOMAIN memoryCache'
          /\ memoryCache'[path].expires =
               now + (IF memoryCache'[path].url = NoUrl
                        THEN 5 * 60 * 1000 ELSE 60 * 60 * 1000)
          /\ IF memoryCache'[path].url = NoUrl
               THEN response'.status = 404
               ELSE \/ hpc' = "image" /\ ogImageUrl' = memoryCache'[path].url
                    \/ response'.location = memoryCache'[path].url
     /\ (memoryCache' # memoryCache) => (Lookup \/ hpc = "github")]_vars

\* C17: a redirect answered from an entry stored at an earlier time and
\* not yet expired
C17_Witness ==
  /\ hpc = "responded" /\ response.status = 302 /\ event = "none"
  /\ path \in DOMAIN memoryCache
  /\ response.location = memoryCache[path].url
  /\ now < memoryCache[path].expires
  /\ memoryCache[path].expires < now + CACHE_TTL_MS

\* The iterations of the loop of parsePngChunks on the input
ReadOffsets == parsePngChunks(pngBytes).offsets

\* C18: on every buffer the loop of parsePngChunks ends: it starts at
\* offset 8, every iteration starts below the end of the buffer and at
\* least 12 bytes (12 plus the length the chunk declares) after the one
\* before, and at most ceil((length of the buffer - 8) / 12) chunks are
\* returned.
C18_ParseTerminates ==
  pc # "idle" =>
    /\ \A k \in 1..Len(ReadOffsets) :
         /\ ReadOffsets[k] < Len(pngBytes)
         /\ k = 1 => ReadOffsets[k] = 8
         /\ k > 1 =>
              /\ ReadOffsets[k] >= ReadOffsets[k - 1] + 12
              /\ ReadOffsets[k] =
                   ReadOffsets[k - 1] + 12 + GetUint32(pngBytes, ReadOffsets[k - 1])
    /\ Len(InChunks) * 12 <= (Len(pngBytes) - 8) + 11
    /\ Len(InChunks) =
         Len(ReadOffsets) - (IF parsePngChunks(pngBytes).threw THEN 1 ELSE 0)
    /\ pc \in {"header", "height", "bpp", "inflate", "deflate"} => chunks = InChunks

\* C18: the loop ended on a buffer whose last chunk declares 40 bytes
\* more than are left, after a chunk of length 0 could have been read
C18_Witness ==
  /\ pc = "header" /\ input.defect = "biglen" /\ input.n = 40
  /\ Len(chunks) = 3 /\ Len(ReadOffsets) = 3
  /\ GetUint32(pngBytes, ReadOffsets[3]) = 40
  /\ ReadOffsets[3] + 12 + 40 > Len(pngBytes)
  /\ Len(chunks[3].data) = 4

====
